---- MODULE Spec2Model ----
(***************************************************************************)
(* State-machine model of forward-summarizer-bot: the PostgreSQL-backed    *)
(* category / message store (database.py), the message classifier with    *)
(* its retry-wrapped LLM gateway (classifier.py), the summarizer           *)
(* (summarizer.py) and the message handler (bot.py).                       *)
(*                                                                         *)
(* Strings are sequences of one-character strings, so that lower(),        *)
(* strip() and the substring test are computed rather than assumed.        *)
(***************************************************************************)
EXTENDS Integers, Sequences, FiniteSets, TLC

(***************************************************************************)
(* Bounds of the model.                                                    *)
(***************************************************************************)
\* total number of add_category / save_message calls started in one run
MaxCalls == 2
\* total number of classify_message calls started in one run
MaxClassify == 1

\* max_retries default of _call_claude_with_retry
MaxRetries == 3

\* the clients (Database objects, each with its own connection) of the store
Procs == {1, 2}

(***************************************************************************)
(* Strings.                                                                *)
(***************************************************************************)
\* str.lower() / SQL LOWER() on one character
LowerChar(c) ==
    CASE c = "A" -> "a"
      [] c = "B" -> "b"
      [] c = "C" -> "c"
      [] OTHER -> c

\* a comparison that drops the case folding
LowerNoFold(s) == s

\* str.lower()
Lower(s) == [i \in DOMAIN s |-> LowerChar(s[i])]

\* Python's `needle in haystack` on strings
IsSubstring(needle, haystack) ==
    \E n \in {needle}, h \in {haystack} :
        \E i \in 0..(Len(h) - Len(n)) : SubSeq(h, i + 1, i + Len(n)) = n

RECURSIVE StripLeft(_)
StripLeft(s) ==
    IF s # <<>> /\ Head(s) = " " THEN StripLeft(Tail(s)) ELSE s

RECURSIVE StripRight(_)
StripRight(s) ==
    IF s # <<>> /\ s[Len(s)] = " " THEN StripRight(SubSeq(s, 1, Len(s) - 1)) ELSE s

\* str.strip()
Strip(s) == StripRight(StripLeft(s))

\* code point order of the characters used (upper case sorts before lower case)
CharRank(c) ==
    CASE c = " " -> 0
      [] c = "A" -> 1
      [] c = "B" -> 2
      [] c = "C" -> 3
      [] c = "a" -> 11
      [] c = "b" -> 12
      [] c = "c" -> 13
      [] c = "e" -> 15
      [] c = "g" -> 17
      [] c = "i" -> 19
      [] c = "l" -> 22
      [] c = "n" -> 24
      [] c = "r" -> 28
      [] c = "v" -> 32
      [] c = "w" -> 33
      [] OTHER -> 40

\* s sorts strictly before t (ORDER BY name, byte-wise collation)
RECURSIVE StrLess(_, _)
StrLess(s, t) ==
    IF t = <<>> THEN FALSE
    ELSE IF s = <<>> THEN TRUE
    ELSE IF Head(s) # Head(t) THEN CharRank(Head(s)) < CharRank(Head(t))
    ELSE StrLess(Tail(s), Tail(t))

\* the rows of a set of names in ORDER BY name order
RECURSIVE SortNames(_)
SortNames(S) ==
    IF S = {} THEN <<>>
    ELSE LET m == CHOOSE x \in S : \A y \in S \ {x} : StrLess(x, y)
         IN  <<m>> \o SortNames(S \ {m})

\* the letters that differ only in case
CasePairs == {<<"a", "A">>, <<"b", "B">>, <<"c", "C">>}

\* two names are the same name up to letter case (stated without lower())
EqualIgnoringCase(s, t) ==
    /\ Len(s) = Len(t)
    /\ \A i \in DOMAIN s :
            s[i] = t[i] \/ <<s[i], t[i]>> \in CasePairs \/ <<t[i], s[i]>> \in CasePairs

\* the elements of a sequence
Range(f) == {f[i] : i \in DOMAIN f}

\* the sentinel categories
GENERAL == <<"g", "e", "n", "e", "r", "a", "l">>
REVIEW == <<"r", "e", "v", "i", "e", "w">>

\* an optional value: Python's None, or a value v
None == {}
Some(v) == {v}

(***************************************************************************)
(* Input domains.                                                          *)
(***************************************************************************)
\* category names given to add_category / save_message by the store's clients
StoreNames == {<<"a">>, <<"A">>, <<"b">>}
Links == {"https://t.me/c/1/1", "https://t.me/c/1/2"}
Summaries == {"summary one", "summary two"}
\* source_url is stored and never read by the store, so one value (no URL found) is kept
SourceUrls == {None}

VARIABLES
    categories,      \* committed rows of table categories (column name)
    messages,        \* committed rows of table messages
    nextId,          \* next value of the sequence behind messages.id
    uncommittedCat,  \* per client: category rows inserted, not yet committed
    uncommittedMsg,  \* per client: message rows inserted, not yet committed
    client,          \* per client: the running call, its locals and its results
    calls,           \* number of store calls started so far
    addedBefore,     \* the names for which an add_category call has returned
    seenBy,          \* per message id: the ids committed when its duplicate check ran
    clf,             \* the MessageClassifier: the running classify_message call
    classified,      \* number of classify_message calls started so far
    smr,             \* the TextSummarizer: the running summarize_text call
    bot              \* the running handle_forwarded_message call

\* the database and the history of the calls
tableVars == <<categories, messages, nextId, uncommittedCat, uncommittedMsg,
               calls, addedBefore, seenBy>>

storeVars == <<tableVars, client>>

clfVars == <<clf, classified>>

botVars == <<smr, bot>>

vars == <<storeVars, clfVars, botVars>>

(***************************************************************************)
(* A client's local state:                                                 *)
(*   pc           the statement it is about to execute                     *)
(*   op, category, source_url, telegram_link, summary                      *)
(*                the running call and its arguments                       *)
(*   acRet        what add_category returned                               *)
(*   ret          what the top-level call returned                         *)
(*   created      this call's INSERT INTO categories created a row         *)
(*   acInserts    INSERT statements add_category issued in this call       *)
(*   acCommits    commits add_category issued in this call                 *)
(*   warnings     "Similar category found" warnings logged in this call    *)
(*   preCalled    add_category had already returned for this name, in any  *)
(*                letter case, when the call began                         *)
(*   dupAtStart   a row with the same link or summary was stored when the  *)
(*                call began                                               *)
(*   msgsAtStart  table messages when the call began                       *)
(*   seen         ids of the rows committed when _message_exists ran       *)
(*   conn         self.connection: "open", "closed" (lost; connection.     *)
(*                closed is set) or "aborted" (open, inside a transaction  *)
(*                in which a statement has failed); it outlives the calls  *)
(***************************************************************************)
IdleClient ==
    [pc |-> "idle", op |-> "none", category |-> <<>>, source_url |-> None,
     telegram_link |-> "", summary |-> "", acRet |-> None, ret |-> None,
     created |-> FALSE, acInserts |-> 0, acCommits |-> 0, warnings |-> 0,
     preCalled |-> FALSE, dupAtStart |-> FALSE, msgsAtStart |-> {}, seen |-> {},
     conn |-> "open"]

\* the Database object between two calls: the locals are gone, the connection
\* stays as the last call left it
Released(c) == [IdleClient EXCEPT !.conn = c.conn]

\* get_cursor, lines 30-31: a closed connection is opened again; any other
\* connection is used as it is
GetCursor(conn) == IF conn = "closed" THEN "open" ELSE conn

\* the states a failed statement can leave the connection in: the connection
\* is lost, or the server has rejected the statement and the transaction is
\* aborted; no method of Database calls rollback(), and in an aborted
\* transaction every statement fails
StatementFails(conn) == IF conn = "aborted" THEN {"aborted"} ELSE {"closed", "aborted"}

\* the states a failed commit() can leave the connection in: lost, or open
\* with the transaction ended
CommitFails == {"closed", "open"}

(***************************************************************************)
(* Database (database.py).  Every client is one Database object with its   *)
(* own connection; a statement reads the committed rows (READ COMMITTED)   *)
(* and an INSERT becomes visible to the other clients at commit.           *)
(***************************************************************************)
\* get_existing_categories: SELECT name FROM categories ORDER BY name
GetExistingCategories(rows) == SortNames(rows)

\* category_exists: SELECT 1 FROM categories WHERE LOWER(name) = LOWER(%s)
CategoryExists(rows, category_name) ==
    \E c \in rows : Lower(c) = Lower(category_name)

\* a loop that also stops at a similar name (one that contains the candidate
\* or is contained in it)
LoopFindsSimilar(existing_categories, category_name) ==
    \E i \in DOMAIN existing_categories :
        \/ IsSubstring(Lower(existing_categories[i]), Lower(category_name))
        \/ IsSubstring(Lower(category_name), Lower(existing_categories[i]))

\* add_category's loop over existing_categories: an equal name (ignoring case)
\* makes it return False
LoopFindsMatch(existing_categories, category_name) ==
    \E i \in DOMAIN existing_categories :
        Lower(existing_categories[i]) = Lower(category_name)

\* add_category's loop: one warning for each similar existing category
SimilarWarnings(existing_categories, category_name) ==
    Cardinality({i \in DOMAIN existing_categories :
        /\ \/ IsSubstring(Lower(category_name), Lower(existing_categories[i]))
           \/ IsSubstring(Lower(existing_categories[i]), Lower(category_name))
        /\ Len(Lower(category_name)) > 3})

\* INSERT INTO categories (name) VALUES (%s) ON CONFLICT (name) DO NOTHING:
\* the arbiter is the unique index on column name, so only an identical name
\* conflicts
ConflictsOnName(rows, category_name) == category_name \in rows

\* a duplicate check that compares the link only
MessageExistsLinkOnly(rows, telegram_link, summary) ==
    \E m \in rows : m.telegram_link = telegram_link

\* a duplicate check that compares the summary only
MessageExistsSummaryOnly(rows, telegram_link, summary) ==
    \E m \in rows : m.summary = summary

\* _message_exists: SELECT 1 FROM messages WHERE telegram_link = %s OR summary = %s
MessageExists(rows, telegram_link, summary) ==
    \E m \in rows : m.telegram_link = telegram_link \/ m.summary = summary

\* a client calls Database.add_category(category_name)
CallAddCategory(p, category_name) ==
    /\ client[p].pc = "idle"
    /\ calls < MaxCalls
    /\ calls' = calls + 1
    /\ client' = [client EXCEPT ![p] =
            [Released(client[p]) EXCEPT
                !.pc = "ac_exists",
                !.op = "add_category",
                !.category = category_name,
                !.preCalled = \E n \in addedBefore : EqualIgnoringCase(n, category_name)]]
    /\ UNCHANGED <<categories, messages, nextId, uncommittedCat, uncommittedMsg,
                   addedBefore, seenBy>>

\* a client calls Database.save_message(source_url, telegram_link, summary, category);
\* its first statement is add_category(category)
CallSaveMessage(p, source_url, telegram_link, summary, category) ==
    /\ client[p].pc = "idle"
    /\ calls < MaxCalls
    /\ calls' = calls + 1
    /\ client' = [client EXCEPT ![p] =
            [Released(client[p]) EXCEPT
                !.pc = "ac_exists",
                !.op = "save_message",
                !.category = category,
                !.source_url = source_url,
                !.telegram_link = telegram_link,
                !.summary = summary,
                !.preCalled = \E n \in addedBefore : EqualIgnoringCase(n, category),
                !.dupAtStart = \E m \in messages :
                    m.telegram_link = telegram_link \/ m.summary = summary,
                !.msgsAtStart = messages]]
    /\ UNCHANGED <<categories, messages, nextId, uncommittedCat, uncommittedMsg,
                   addedBefore, seenBy>>

\* client p's state once add_category has returned r: back in the caller of
\* add_category, or in save_message, which ignores r
AfterAddCategory(c, r) ==
    IF c.op = "add_category"
    THEN [c EXCEPT !.acRet = Some(r), !.ret = Some(r), !.pc = "done"]
    ELSE [c EXCEPT !.acRet = Some(r), !.pc = "sm_exists"]

\* add_category, line 52: if self.category_exists(category_name): return False
AcCategoryExists(p) ==
    /\ client[p].pc = "ac_exists"
    /\ client[p].conn # "aborted"
    /\ IF CategoryExists(categories, client[p].category)
       THEN /\ client' = [client EXCEPT ![p] =
                    AfterAddCategory([@ EXCEPT !.conn = GetCursor(@)], FALSE)]
            /\ addedBefore' = addedBefore \cup {client[p].category}
       ELSE /\ client' = [client EXCEPT ![p].pc = "ac_list",
                                        ![p].conn = GetCursor(@)]
            /\ UNCHANGED addedBefore
    /\ UNCHANGED <<categories, messages, nextId, uncommittedCat, uncommittedMsg, calls,
                   seenBy>>

\* add_category, lines 57-68: list the categories and compare each with the name
AcListAndCompare(p) ==
    /\ client[p].pc = "ac_list"
    /\ LET existing_categories == GetExistingCategories(categories) IN
        IF LoopFindsMatch(existing_categories, client[p].category)
        THEN /\ client' = [client EXCEPT ![p] = AfterAddCategory(@, FALSE)]
             /\ addedBefore' = addedBefore \cup {client[p].category}
        ELSE /\ client' = [client EXCEPT
                    ![p].warnings = SimilarWarnings(existing_categories, client[p].category),
                    ![p].pc = "ac_insert"]
             /\ UNCHANGED addedBefore
    /\ UNCHANGED <<categories, messages, nextId, uncommittedCat, uncommittedMsg, calls,
                   seenBy>>

\* add_category, lines 71-75: the INSERT.  It waits while another transaction
\* holds an uncommitted row of the same name, and does nothing on a conflict.
AcInsert(p) ==
    /\ client[p].pc = "ac_insert"
    /\ \A q \in Procs \ {p} : client[p].category \notin uncommittedCat[q]
    /\ IF ConflictsOnName(categories, client[p].category)
       THEN /\ client' = [client EXCEPT ![p].created = FALSE,
                                        ![p].acInserts = @ + 1,
                                        ![p].pc = "ac_commit"]
            /\ UNCHANGED uncommittedCat
       ELSE /\ client' = [client EXCEPT ![p].created = TRUE,
                                        ![p].acInserts = @ + 1,
                                        ![p].pc = "ac_commit"]
            /\ uncommittedCat' = [uncommittedCat EXCEPT ![p] = {client[p].category}]
    /\ UNCHANGED <<categories, messages, nextId, uncommittedMsg, calls, addedBefore,
                   seenBy>>

\* add_category, lines 76-78: commit and return True
AcCommit(p) ==
    /\ client[p].pc = "ac_commit"
    /\ categories' = categories \cup uncommittedCat[p]
    /\ uncommittedCat' = [uncommittedCat EXCEPT ![p] = {}]
    /\ client' = [client EXCEPT
            ![p] = AfterAddCategory([@ EXCEPT !.acCommits = @ + 1], TRUE)]
    /\ addedBefore' = addedBefore \cup {client[p].category}
    /\ UNCHANGED <<messages, nextId, uncommittedMsg, calls, seenBy>>

\* save_message, lines 86-88: if self._message_exists(...): return None
SmMessageExists(p) ==
    /\ client[p].pc = "sm_exists"
    /\ IF MessageExists(messages, client[p].telegram_link, client[p].summary)
       THEN client' = [client EXCEPT ![p].ret = None,
                                     ![p].seen = {m.id : m \in messages},
                                     ![p].pc = "done"]
       ELSE client' = [client EXCEPT ![p].seen = {m.id : m \in messages},
                                     ![p].pc = "sm_insert"]
    /\ UNCHANGED <<categories, messages, nextId, uncommittedCat, uncommittedMsg, calls,
                   addedBefore, seenBy>>

\* save_message, lines 90-99: INSERT INTO messages ... RETURNING id
SmInsert(p) ==
    /\ client[p].pc = "sm_insert"
    /\ uncommittedMsg' = [uncommittedMsg EXCEPT ![p] =
            {[id |-> nextId, source_url |-> client[p].source_url,
              telegram_link |-> client[p].telegram_link,
              summary |-> client[p].summary, category |-> client[p].category]}]
    /\ nextId' = nextId + 1
    /\ seenBy' = (nextId :> client[p].seen) @@ seenBy
    /\ client' = [client EXCEPT ![p].pc = "sm_commit"]
    /\ UNCHANGED <<categories, messages, uncommittedCat, calls, addedBefore>>

\* a commit after which the table holds the new row only
SmCommitReplacing(p) ==
    /\ client[p].pc = "sm_commit"
    /\ messages' = uncommittedMsg[p]
    /\ uncommittedMsg' = [uncommittedMsg EXCEPT ![p] = {}]
    /\ client' = [client EXCEPT
            ![p].ret = {m.id : m \in uncommittedMsg[p]},
            ![p].pc = "done"]
    /\ UNCHANGED <<categories, nextId, uncommittedCat, calls, addedBefore, seenBy>>

\* save_message, lines 100-102: commit and return message_id
SmCommit(p) ==
    /\ client[p].pc = "sm_commit"
    /\ messages' = messages \cup uncommittedMsg[p]
    /\ uncommittedMsg' = [uncommittedMsg EXCEPT ![p] = {}]
    /\ client' = [client EXCEPT
            ![p].ret = {m.id : m \in uncommittedMsg[p]},
            ![p].pc = "done"]
    /\ UNCHANGED <<categories, nextId, uncommittedCat, calls, addedBefore, seenBy>>

\* the caller takes the result; the client is free for the next call
Return(p) ==
    /\ client[p].pc = "done"
    /\ client' = [client EXCEPT ![p] = Released(@)]
    /\ UNCHANGED <<categories, messages, nextId, uncommittedCat, uncommittedMsg, calls,
                   addedBefore, seenBy>>

\* a database that holds the category rows cats and the message rows msgs
\* (with the ids 1, 2, ...), and idle clients
StoreInitHolding(cats, msgs) ==
    /\ categories = cats
    /\ messages = msgs
    /\ nextId = Cardinality(msgs) + 1
    /\ uncommittedCat = [p \in Procs |-> {}]
    /\ uncommittedMsg = [p \in Procs |-> {}]
    /\ client = [p \in Procs |-> IdleClient]
    /\ calls = 0
    /\ addedBefore = {}
    /\ seenBy = [i \in 1..Cardinality(msgs) |-> {}]

\* a database that holds the category rows cats and no message, and idle clients
StoreInitWith(cats) == StoreInitHolding(cats, {})

\* a fresh database (schema applied, no rows) and idle clients
StoreInit == StoreInitWith({})

(***************************************************************************)
(* MessageClassifier (classifier.py).  classify_message is synchronous, so *)
(* one call runs at a time; every attempt of the gateway loop is a step    *)
(* whose outcome (a response text, a rate-limit error, another error) the  *)
(* provider chooses.                                                       *)
(*                                                                         *)
(* A response text is a sequence of lines.  A line is a record: label is   *)
(* what the stripped line starts with (the category label, the confidence  *)
(* label, or neither) and value is the text after the line's first colon.  *)
(* A confidence is kept in hundredths (0.5 is 50).                         *)
(***************************************************************************)
\* the labels _parse_claude_response looks for at the start of a line (in the
\* source they are the Russian words for category and confidence, with a colon)
CategoryLabel == "Category:"
ConfidenceLabel == "Confidence:"

\* float(confidence_str): the texts float() accepts, with their values
FloatTexts == {"0.3", "0.5", "0.9", "1.5"}
FloatValue(t) ==
    CASE t = "0.3" -> 30
      [] t = "0.5" -> 50
      [] t = "0.9" -> 90
      [] t = "1.5" -> 150

\* the lines a classification response is made of
ResponseLines ==
    {[label |-> CategoryLabel, value |-> v] : v \in {<<" ", "c">>, <<"a", "b">>, <<" ">>}}
    \cup {[label |-> ConfidenceLabel, value |-> v] : v \in FloatTexts \cup {"abc"}}
    \cup {[label |-> "", value |-> <<>>]}

\* the classification responses: at most two lines
ClassificationResponses ==
    {<<>>} \cup {<<l>> : l \in ResponseLines}
           \cup {<<l1, l2>> : l1 \in ResponseLines, l2 \in ResponseLines}

\* the duplicate-check responses
DuplicateResponses == {<<" ", "a", "b">>, <<"b">>, <<"c">>, <<>>}

\* the texts to classify
Texts == {<<"A", "B">>, <<"b", "a">>, <<"c">>}

\* the category tables a classify_message call may find
InitialCategorySets == SUBSET {<<"a">>, <<"A", "b">>, <<"b">>, GENERAL}

Operations == {"classification", "duplicate_check"}

\* a backoff that grows linearly
TimesTwo(n) == 2 * n

RECURSIVE Pow2(_)
Pow2(n) == IF n = 0 THEN 1 ELSE 2 * Pow2(n - 1)

\* a simple match that compares without folding the case
SimpleCategoryMatchCaseSensitive(text, existing) ==
    LET hits == {i \in DOMAIN existing : IsSubstring(existing[i], text)}
    IN  IF hits = {} THEN None
        ELSE Some(existing[CHOOSE i \in hits : \A j \in hits : i <= j])

\* a simple match that returns the last category of the list that occurs
SimpleCategoryMatchLast(text, existing) ==
    LET hits == {i \in DOMAIN existing : IsSubstring(Lower(existing[i]), Lower(text))}
    IN  IF hits = {} THEN None
        ELSE Some(existing[CHOOSE i \in hits : \A j \in hits : j <= i])

\* _simple_category_match: the first category whose lower case occurs in the
\* lower-cased text, or None
SimpleCategoryMatch(text, existing) ==
    LET hits == {i \in DOMAIN existing : IsSubstring(Lower(existing[i]), Lower(text))}
    IN  IF hits = {} THEN None
        ELSE Some(existing[CHOOSE i \in hits : \A j \in hits : i <= j])

\* `if category_match:` -- None and the empty string are false
Truthy(match) == match # None /\ match # Some(<<>>)

\* _parse_claude_response's loop over the lines: a later line overwrites an
\* earlier one; float() failing leaves 0.5
RECURSIVE ParseLines(_, _, _)
ParseLines(lines, category, confidence) ==
    IF lines = <<>> THEN <<category, confidence>>
    ELSE LET line == Head(lines) IN
         IF line.label = CategoryLabel
         THEN ParseLines(Tail(lines), Some(Strip(line.value)), confidence)
         ELSE IF line.label = ConfidenceLabel
         THEN ParseLines(Tail(lines), category,
                         IF line.value \in FloatTexts THEN FloatValue(line.value) ELSE 50)
         ELSE ParseLines(Tail(lines), category, confidence)

\* a parser that leaves a missing category empty
ParseClaudeResponseNoDefault(response_text) ==
    LET r == ParseLines(response_text, None, 50)
    IN  IF r[1] = None THEN <<<<>>, r[2]>> ELSE <<CHOOSE c \in r[1] : TRUE, r[2]>>

\* _parse_claude_response: `if not category: category = "general"`
ParseClaudeResponse(response_text) ==
    LET r == ParseLines(response_text, None, 50)
    IN  IF r[1] = None \/ r[1] = Some(<<>>)
        THEN <<GENERAL, r[2]>>
        ELSE <<CHOOSE c \in r[1] : TRUE, r[2]>>

\* a duplicate check that takes the stripped answer as it comes
ParseDuplicateResponseTrusting(response_text, existing, new_category) ==
    Strip(response_text)

\* parse_duplicate_response: the stripped answer if it names an existing
\* category (ignoring case), else the candidate
ParseDuplicateResponse(response_text, existing, new_category) ==
    LET result_category == Strip(response_text)
    IN  IF \E i \in DOMAIN existing : Lower(existing[i]) = Lower(result_category)
        THEN result_category
        ELSE new_category

\* a downgrade that also rewrites a confidence of exactly 0.5
LowConfidenceOverrideInclusive(parsed) ==
    IF parsed[2] <= 50 THEN <<REVIEW, parsed[2]>> ELSE parsed

\* _call_claude_with_retry, lines 177-182: a confidence below 0.5 makes the
\* category "review"
LowConfidenceOverride(parsed) ==
    IF parsed[2] < 50 THEN <<REVIEW, parsed[2]>> ELSE parsed

\* a fallback that reports no confidence
ClassificationFallbackZero == <<GENERAL, 0>>

\* _call_claude_with_retry, lines 206-207: the fallback of a classification
ClassificationFallback == <<GENERAL, 50>>

\* _call_claude_with_retry, lines 208-209: the fallback of any other operation
OtherFallback == GENERAL

(***************************************************************************)
(* The classifier's state:                                                 *)
(*   pc          "idle", "api" (in the gateway loop, about to call the     *)
(*               API) or "done"                                            *)
(*   text, existing_categories    classify_message's argument and local    *)
(*   operation   operation_name of the running gateway call                *)
(*   attempt     the gateway loop's variable                               *)
(*   category, confidence   what _classify_with_claude returned            *)
(*   result      what classify_message returned                            *)
(*   parsed      what _parse_claude_response returned                      *)
(*   response    the classification response received                      *)
(*   dupAnswer   the duplicate-check response received                     *)
(*   answered    per operation: the gateway call got a response            *)
(*   exhausted   per operation: the gateway call returned its fallback     *)
(*   apiCalls    per operation: calls of client.messages.create            *)
(*   sleeps      per operation: the arguments of time.sleep, in order      *)
(*   failures    per operation: the failed attempts, in order:             *)
(*               "rate_limit" (RateLimitError) or "error" (any other)      *)
(*   dbCalls     the Database methods classify_message has called          *)
(***************************************************************************)
IdleClassifier ==
    [pc |-> "idle", text |-> <<>>, existing_categories |-> <<>>,
     operation |-> "none", attempt |-> 0,
     category |-> <<>>, confidence |-> 0, result |-> None, parsed |-> None,
     response |-> None, dupAnswer |-> None,
     answered |-> [o \in Operations |-> FALSE],
     exhausted |-> [o \in Operations |-> FALSE],
     apiCalls |-> [o \in Operations |-> 0],
     sleeps |-> [o \in Operations |-> <<>>],
     failures |-> [o \in Operations |-> <<>>],
     dbCalls |-> <<>>]

ClfInit ==
    /\ clf = IdleClassifier
    /\ classified = 0

\* a classify_message that registers its category in the store before it returns
ClassifyReturnsStoring(c, category, confidence) ==
    [c EXCEPT !.result = Some(<<category, confidence>>), !.pc = "done",
              !.dbCalls = Append(@, "add_category")]

\* classify_message returns
ClassifyReturns(c, category, confidence) ==
    [c EXCEPT !.result = Some(<<category, confidence>>), !.pc = "done"]

\* a line 35 that skips the duplicate check only for a category that is in the
\* list letter for letter
AfterClassificationExactCase(c, category, confidence) ==
    LET c1 == [c EXCEPT !.category = category, !.confidence = confidence] IN
    IF category \notin Range(c.existing_categories)
    THEN IF c.existing_categories = <<>>
         THEN ClassifyReturns(c1, category, confidence)
         ELSE [c1 EXCEPT !.operation = "duplicate_check", !.attempt = 0, !.pc = "api"]
    ELSE ClassifyReturns(c1, category, confidence)

\* classify_message, lines 32-38, once _classify_with_claude has returned:
\* a category that is not in the list (ignoring case) goes to
\* _check_duplicate_category, which returns it as it is when the list is empty
AfterClassification(c, category, confidence) ==
    LET c1 == [c EXCEPT !.category = category, !.confidence = confidence] IN
    IF Lower(category) \notin {Lower(x) : x \in Range(c.existing_categories)}
    THEN IF c.existing_categories = <<>>
         THEN ClassifyReturns(c1, category, confidence)
         ELSE [c1 EXCEPT !.operation = "duplicate_check", !.attempt = 0, !.pc = "api"]
    ELSE ClassifyReturns(c1, category, confidence)

\* classify_message, lines 36-38, once _check_duplicate_category has returned
AfterDuplicateCheck(c, category) ==
    ClassifyReturns(c, category, c.confidence)

\* the gateway loop is over without a response: lines 204-209
GatewayExhausted(c) ==
    LET c1 == [c EXCEPT !.exhausted[c.operation] = TRUE] IN
    IF c.operation = "classification"
    THEN AfterClassification(c1, ClassificationFallback[1], ClassificationFallback[2])
    ELSE AfterDuplicateCheck(c1, OtherFallback)

\* a loop that makes one attempt more than max_retries
NextAttemptOneMore(c) ==
    IF c.attempt + 1 <= MaxRetries
    THEN [c EXCEPT !.attempt = @ + 1]
    ELSE GatewayExhausted(c)

\* the loop's next iteration, or the fallback when range(max_retries) is used up
NextAttempt(c) ==
    IF c.attempt + 1 < MaxRetries
    THEN [c EXCEPT !.attempt = @ + 1]
    ELSE GatewayExhausted(c)

\* classify_message(text), lines 23-29 and 32 up to the first API call
ClassifyMessage(text) ==
    /\ clf.pc = "idle"
    /\ classified < MaxClassify
    /\ classified' = classified + 1
    /\ LET existing == GetExistingCategories(categories)
           category_match == SimpleCategoryMatch(text, existing)
           c == [IdleClassifier EXCEPT !.text = text, !.existing_categories = existing,
                                       !.dbCalls = <<"get_existing_categories">>]
       IN  IF Truthy(category_match)
           THEN clf' = ClassifyReturns(c, CHOOSE m \in category_match : TRUE, 100)
           ELSE clf' = [c EXCEPT !.operation = "classification", !.attempt = 0,
                                 !.pc = "api"]

\* an attempt of the classification call gets a response: lines 169-182
ClassificationResponds(response_text) ==
    /\ clf.pc = "api"
    /\ clf.operation = "classification"
    /\ LET parsed == ParseClaudeResponse(response_text)
           returned == LowConfidenceOverride(parsed)
           c == [clf EXCEPT !.apiCalls["classification"] = @ + 1,
                            !.answered["classification"] = TRUE,
                            !.parsed = Some(parsed),
                            !.response = Some(response_text)]
       IN  clf' = AfterClassification(c, returned[1], returned[2])
    /\ UNCHANGED classified

\* an attempt of the duplicate check gets a response: lines 169-175, 184
DuplicateCheckResponds(response_text) ==
    /\ clf.pc = "api"
    /\ clf.operation = "duplicate_check"
    /\ LET c == [clf EXCEPT !.apiCalls["duplicate_check"] = @ + 1,
                            !.answered["duplicate_check"] = TRUE,
                            !.dupAnswer = Some(response_text)]
       IN  clf' = AfterDuplicateCheck(c,
                    ParseDuplicateResponse(response_text, clf.existing_categories,
                                           clf.category))
    /\ UNCHANGED classified

\* an attempt raises anthropic.RateLimitError: lines 186-190
ApiRateLimited ==
    /\ clf.pc = "api"
    /\ LET wait_time == Pow2(clf.attempt) + 1
           c == [clf EXCEPT !.apiCalls[clf.operation] = @ + 1,
                            !.failures[clf.operation] = Append(@, "rate_limit"),
                            !.sleeps[clf.operation] = Append(@, wait_time)]
       IN  clf' = NextAttempt(c)
    /\ UNCHANGED classified

\* an attempt raises anthropic.APIError or another exception: lines 191-202
ApiFails ==
    /\ clf.pc = "api"
    /\ LET c == [clf EXCEPT !.apiCalls[clf.operation] = @ + 1,
                            !.failures[clf.operation] = Append(@, "error")] IN
        IF clf.attempt < MaxRetries - 1
        THEN clf' = NextAttempt([c EXCEPT !.sleeps[clf.operation] =
                                    Append(@, Pow2(clf.attempt))])
        ELSE clf' = GatewayExhausted(c)
    /\ UNCHANGED classified

\* the caller takes the result
ClassifyDone ==
    /\ clf.pc = "done"
    /\ clf' = IdleClassifier
    /\ UNCHANGED classified

(***************************************************************************)
(* TextSummarizer (summarizer.py).  A text is a sequence of characters;    *)
(* the only whitespace in the texts used is the space.                     *)
(***************************************************************************)
\* summarize_text, line 21: a text shorter than this is returned stripped
MinSummarizeLength == 50

\* summarize_text's default max_length, the one the bot uses
DefaultMaxLength == 200

\* the summarizer's _call_claude_with_retry: max_retries
SummarizerMaxRetries == 3

\* n times the character c
Fill(c, n) == [i \in 1..n |-> c]

\* the '...' appended to a truncated summary
Dots == <<".", ".", ".">>

\* str.startswith / str.endswith
StartsWith(s, prefix) ==
    Len(s) >= Len(prefix) /\ SubSeq(s, 1, Len(prefix)) = prefix

EndsWith(s, suffix) ==
    Len(s) >= Len(suffix) /\ SubSeq(s, Len(s) - Len(suffix) + 1, Len(s)) = suffix

\* str.rfind(c) + 1: the last position of c in s, 0 when there is none
RFind(s, c) ==
    LET hits == UNION {{i \in DOMAIN t : t[i] = c} : t \in {s}}
    IN  IF hits = {} THEN 0 ELSE CHOOSE i \in hits : \A j \in hits : j <= i

\* re.sub(r'[c]{n,}', c * m, s): every run of at least n characters c is cut
\* down to its first m characters
CollapseRuns(s, c, n, m) ==
    LET Cut(i) ==
            /\ s[i] = c
            /\ \E a \in 1..i :
                /\ \A k \in a..i : s[k] = c
                /\ a = 1 \/ s[a - 1] # c
                /\ i - a >= m
                /\ \E b \in i..Len(s) :
                        (\A k \in i..b : s[k] = c) /\ b - a + 1 >= n
        Stays(p) == ~Cut(p[1])
    IN  CHOOSE t \in {[j \in DOMAIN kept |-> kept[j][2]] :
                        kept \in {SelectSeq([i \in DOMAIN s |-> <<i, s[i]>>], Stays)}} :
            TRUE

\* re.sub(r'\s+', ' ', s): every run of whitespace becomes one space
CollapseSpaces(s) == CollapseRuns(s, " ", 1, 1)

\* _clean_text.  The forwarding-marker pattern of line 60 needs a newline
\* after the marker, and line 57 has replaced every newline by a space, so
\* that substitution changes nothing.
CleanText(text) ==
    LET Sub(texts, c, n, m) == {CollapseRuns(t, c, n, m) : t \in texts}
        t1 == {CollapseSpaces(t) : t \in {Strip(text)}}
        t2 == Sub(t1, ".", 3, 3)
        t3 == Sub(t2, "!", 2, 1)
    IN  CHOOSE t \in Sub(t3, "?", 2, 1) : TRUE

\* the prefixes _clean_summary removes, in its order (in the source they are
\* six Russian phrases that end with a colon)
SummaryPrefixes ==
    << <<"R", ":">>, <<"K", " ", "R", ":">>, <<"O", ":">>, <<"S", ":">>,
       <<"V", " ", "K", ":">>, <<"V", "K", ":">> >>

\* _clean_summary: drop the first prefix that matches, then enclosing quotes
CleanSummary(summary) ==
    LET hits == {i \in DOMAIN SummaryPrefixes : StartsWith(summary, SummaryPrefixes[i])}
        s1 == IF hits = {} THEN summary
              ELSE LET i == CHOOSE i \in hits : \A j \in hits : i <= j
                   IN  Strip(SubSeq(summary, Len(SummaryPrefixes[i]) + 1, Len(summary)))
    IN  IF StartsWith(s1, <<"\"">>) /\ EndsWith(s1, <<"\"">>)
        THEN Strip(SubSeq(s1, 2, Len(s1) - 1))
        ELSE s1

\* _call_claude_with_retry, lines 123-124:
\* summary[:max_length].rsplit(' ', 1)[0] + '...'
TruncateSummary(summary, max_length) ==
    IF Len(summary) > max_length
    THEN LET head == SubSeq(summary, 1, max_length)
             space == RFind(head, " ")
         IN  (IF space = 0 THEN head ELSE SubSeq(head, 1, space - 1)) \o Dots
    ELSE summary

\* _call_claude_with_retry, lines 117-126: what a response text becomes
SummaryOfResponse(response_text, max_length) ==
    CHOOSE summary \in
        {TruncateSummary(cleaned, max_length) :
            cleaned \in {CleanSummary(stripped) : stripped \in {Strip(response_text)}}} :
        TRUE

\* _fallback_summary
FallbackSummary(text, max_length) ==
    IF Len(text) <= max_length THEN text
    ELSE LET truncated == SubSeq(text, 1, max_length)
             last_sentence == RFind(truncated, ".") - 1
             last_space == RFind(truncated, " ") - 1
         IN  IF last_sentence > max_length \div 2
             THEN SubSeq(truncated, 1, last_sentence + 1)
             ELSE IF last_space > max_length \div 2
             THEN SubSeq(truncated, 1, last_space) \o Dots
             ELSE truncated \o Dots

(***************************************************************************)
(* The summarizer's state:                                                 *)
(*   pc          "idle", "api" (in the gateway loop), "done" or "raised"   *)
(*   text        the text summarize_text was called with (None or a text)  *)
(*   original_text, max_length   the arguments of _call_claude_with_retry  *)
(*   attempt     the gateway loop's variable                               *)
(*   result      what summarize_text returned                              *)
(*   answered    the gateway call got a response                           *)
(*   exhausted   the gateway call returned the fallback                    *)
(*   response    the response received                                     *)
(*   raised      "none", or the exception summarize_text raised            *)
(*   apiCalls    calls of client.messages.create                           *)
(*   sleeps      the arguments of time.sleep, in order                     *)
(*   failures    the failed attempts, in order: "rate_limit" or "error"    *)
(***************************************************************************)
IdleSummarizer ==
    [pc |-> "idle", text |-> None, original_text |-> <<>>, max_length |-> 0,
     attempt |-> 0, result |-> None, answered |-> FALSE, exhausted |-> FALSE,
     response |-> None, raised |-> "none", apiCalls |-> 0, sleeps |-> <<>>,
     failures |-> <<>>]

\* a loop that returns the fallback whatever the provider answered
SummarizeReturnsFallback(s, summary) ==
    [s EXCEPT !.result = Some(FallbackSummary(s.original_text, s.max_length)),
              !.pc = "done"]

\* summarize_text returns
SummarizeReturns(s, summary) == [s EXCEPT !.result = Some(summary), !.pc = "done"]

\* a summarizer whose fallback is the empty summary
SummarizerExhaustedEmpty(s) ==
    SummarizeReturns([s EXCEPT !.exhausted = TRUE], <<>>)

\* the gateway loop is over without a response: lines 146-148
SummarizerExhausted(s) ==
    SummarizeReturns([s EXCEPT !.exhausted = TRUE],
                     FallbackSummary(s.original_text, s.max_length))

\* the loop's next iteration, or the fallback when range(max_retries) is used up
SummarizerNextAttempt(s) ==
    IF s.attempt + 1 < SummarizerMaxRetries
    THEN [s EXCEPT !.attempt = @ + 1]
    ELSE SummarizerExhausted(s)

\* summarize_text(text, max_length), lines 21-25 and 52 up to the first API
\* call; text is None or a text.  `not text` holds for None, and line 22 then
\* calls None.strip(), which raises AttributeError.
SummarizeText(text, max_length) ==
    /\ smr.pc = "idle"
    /\ LET s == [IdleSummarizer EXCEPT !.text = text, !.max_length = max_length] IN
        IF text = None
        THEN smr' = [s EXCEPT !.raised = "AttributeError", !.pc = "raised"]
        ELSE LET str == CHOOSE t \in text : TRUE IN
             IF ~Truthy(text) \/ Len(Strip(str)) < MinSummarizeLength
             THEN smr' = SummarizeReturns(s, Strip(str))
             ELSE smr' = [s EXCEPT !.original_text = CleanText(str), !.pc = "api"]

\* an attempt gets a response: lines 111-126
SummaryResponds(response_text) ==
    /\ smr.pc = "api"
    /\ smr' = SummarizeReturns([smr EXCEPT !.apiCalls = @ + 1, !.answered = TRUE,
                                            !.response = Some(response_text)],
                               SummaryOfResponse(response_text, smr.max_length))

\* an attempt raises anthropic.RateLimitError: lines 128-132
SummaryRateLimited ==
    /\ smr.pc = "api"
    /\ smr' = SummarizerNextAttempt(
                [smr EXCEPT !.apiCalls = @ + 1,
                            !.failures = Append(@, "rate_limit"),
                            !.sleeps = Append(@, Pow2(smr.attempt) + 1)])

\* an attempt raises anthropic.APIError or another exception: lines 133-144
SummaryApiFails ==
    /\ smr.pc = "api"
    /\ LET s == [smr EXCEPT !.apiCalls = @ + 1, !.failures = Append(@, "error")] IN
        IF smr.attempt < SummarizerMaxRetries - 1
        THEN smr' = SummarizerNextAttempt([s EXCEPT !.sleeps = Append(@, Pow2(smr.attempt))])
        ELSE smr' = SummarizerExhausted(s)

(***************************************************************************)
(* The bot (bot.py).  The Application is built without concurrent updates  *)
(* and the handler never yields before its reply, so one update is handled *)
(* at a time, on the one Database object of the process.  Sending a reply  *)
(* is the chat transport's part and is taken to succeed.                   *)
(*                                                                         *)
(* An update is a record: forwarded (forward_from or forward_from_chat is  *)
(* set), text (None or a text), chat_id (str(message.chat.id)),            *)
(* message_id, and entities (records with type, offset and length).        *)
(***************************************************************************)
\* the Database object of the bot process
BotClient == CHOOSE p \in Procs : \A q \in Procs : p <= q

ShortText == <<"b", "a">>
MediumText ==
    <<"h", "t", "t", "p", ":", "/", "/", "x", " ", " ", "!", "!">> \o Fill("y", 50)
LongText == Fill("z", 120) \o <<".", " ">> \o Fill("z", 100)

\* the updates the transport delivers
Updates ==
    {[forwarded |-> FALSE, text |-> Some(ShortText), chat_id |-> <<"1">>,
      message_id |-> 1, entities |-> <<>>],
     [forwarded |-> TRUE, text |-> None, chat_id |-> <<"1">>,
      message_id |-> 1, entities |-> <<>>],
     [forwarded |-> TRUE, text |-> Some(<<>>), chat_id |-> <<"1">>,
      message_id |-> 1, entities |-> <<>>],
     [forwarded |-> TRUE, text |-> Some(ShortText), chat_id |-> <<"1">>,
      message_id |-> 1, entities |-> <<>>],
     [forwarded |-> TRUE, text |-> Some(MediumText),
      chat_id |-> <<"-", "1", "0", "0", "1">>,
      message_id |-> 1, entities |-> <<>>],
     [forwarded |-> TRUE, text |-> Some(LongText), chat_id |-> <<"1">>,
      message_id |-> 2,
      entities |-> <<[type |-> "bold", offset |-> 0, length |-> 1],
                     [type |-> "url", offset |-> 0, length |-> 3]>>]}

\* the responses the provider gives to the bot's requests
BotSummaryResponses == {<<"R", ":", " ", "\"", "s", "\"">>, Fill("w", DefaultMaxLength + 1)}

BotClassificationResponses ==
    {<<>>,
     <<[label |-> CategoryLabel, value |-> <<"a", "b">>],
       [label |-> ConfidenceLabel, value |-> "0.9"]>>,
     <<[label |-> CategoryLabel, value |-> <<" ", "c">>],
       [label |-> ConfidenceLabel, value |-> "0.3"]>>}

BotDuplicateResponses == {<<" ", "a", "b">>, <<"c">>}

\* what the database holds when the bot takes an update: nothing, or the
\* categories "Ab" and "general" with the row of an earlier short message that
\* was filed under "general"
BotStores ==
    {[categories |-> {}, messages |-> {}],
     [categories |-> {<<"A", "b">>, GENERAL},
      messages |-> {[id |-> 1, source_url |-> None,
                     telegram_link |-> <<<<"1">>, 1>>,
                     summary |-> ShortText, category |-> GENERAL]}]}

\* a filter that looks at the text only
ValidatesTextOnly(update) == Truthy(update.text)

\* handle_forwarded_message, lines 30-35: the update is forwarded and has text
Validates(update) == update.forwarded /\ Truthy(update.text)

\* the URL schemes of the pattern https?://[^\s]+
UrlSchemes ==
    {<<"h", "t", "t", "p", ":", "/", "/">>, <<"h", "t", "t", "p", "s", ":", "/", "/">>}

\* the pattern https?://[^\s]+ matches at position i of text
UrlMatchesAt(text, i) ==
    \E scheme \in UrlSchemes :
        /\ i + Len(scheme) <= Len(text)
        /\ SubSeq(text, i, i + Len(scheme) - 1) = scheme
        /\ text[i + Len(scheme)] # " "

\* extract_url_from_message: the text of the first url entity, else the first
\* match of the pattern, else None
ExtractUrlFromMessage(update, text) ==
    LET urls == {i \in DOMAIN update.entities : update.entities[i].type = "url"}
        starts == {i \in DOMAIN text : UrlMatchesAt(text, i)}
    IN  IF urls # {}
        THEN LET e == update.entities[CHOOSE i \in urls : \A j \in urls : i <= j]
                 last == IF e.offset + e.length < Len(text)
                         THEN e.offset + e.length ELSE Len(text)
             IN  Some(SubSeq(text, e.offset + 1, last))
        ELSE IF starts # {}
        THEN LET i == CHOOSE i \in starts : \A j \in starts : i <= j
                 spaces == {j \in i..Len(text) : text[j] = " "}
                 last == IF spaces = {} THEN Len(text)
                         ELSE (CHOOSE j \in spaces : \A k \in spaces : j <= k) - 1
             IN  Some(SubSeq(text, i, last))
        ELSE None

\* generate_telegram_link: https://t.me/c/{chat_id}/{message_id}, kept as the
\* pair of its two parts; a chat id that starts with -100 loses that prefix
GenerateTelegramLink(update) ==
    LET chat_id == update.chat_id
    IN  <<IF StartsWith(chat_id, <<"-", "1", "0", "0">>)
          THEN SubSeq(chat_id, 5, Len(chat_id)) ELSE chat_id,
          update.message_id>>

\* a handler that tells every sender the message was processed
ReplyForAlwaysSuccess(message_id) == "success"

\* handle_forwarded_message, lines 66-77: `if message_id:` chooses the reply
ReplyFor(message_id) ==
    IF message_id # None /\ message_id # Some(0) THEN "success" ELSE "duplicate"

(***************************************************************************)
(* The handler's state:                                                    *)
(*   pc          "idle", "summarize", "summarizing", "classify",           *)
(*               "classifying", "save", "saving", "except" or "done"       *)
(*   update      the update it handles                                     *)
(*   text, source_url, telegram_link, summary, category, confidence        *)
(*               its locals                                                *)
(*   replies     the replies sent, in order                                *)
(*   validated   the update passed lines 30-35                             *)
(*   summarizeCalls, classifyCalls, saveCalls                              *)
(*               calls of summarize_text, classify_message, save_message   *)
(*   summarized, classifiedOk   the call has returned a value              *)
(*   saved       "no", or what save_message returned: "id" or "none"       *)
(*   raisedIn    "none", or the call that raised an exception              *)
(*   summaryExhausted, classifyExhausted                                   *)
(*               a gateway call of the step returned its fallback          *)
(*   categoriesAtStart, messagesAtStart                                    *)
(*               the committed rows when the update arrived                *)
(*   storageFailed   a query of this update failed on a connection that    *)
(*               was usable: the storage itself failed                     *)
(***************************************************************************)
IdleBot ==
    [pc |-> "idle", update |-> None, text |-> <<>>, source_url |-> None,
     telegram_link |-> <<>>, summary |-> <<>>, category |-> <<>>, confidence |-> 0,
     replies |-> <<>>, validated |-> FALSE,
     summarizeCalls |-> 0, classifyCalls |-> 0, saveCalls |-> 0,
     summarized |-> FALSE, classifiedOk |-> FALSE, saved |-> "no",
     raisedIn |-> "none", summaryExhausted |-> FALSE, classifyExhausted |-> FALSE,
     categoriesAtStart |-> {}, messagesAtStart |-> {}, storageFailed |-> FALSE]

BotInit ==
    /\ smr = IdleSummarizer
    /\ bot = IdleBot

\* a handler that goes on to save_message after an exception
OnExceptionGoesOn(b, where) == [b EXCEPT !.raisedIn = where, !.pc = "save"]

\* an exception raised inside the try block reaches line 79
OnException(b, where) == [b EXCEPT !.raisedIn = where, !.pc = "except"]

\* the transport delivers an update: lines 28-48
ReceiveUpdate(update) ==
    /\ bot.pc = "idle"
    /\ Validates(update) => (calls < MaxCalls /\ classified < MaxClassify)
    /\ LET b == [IdleBot EXCEPT !.update = Some(update),
                                !.categoriesAtStart = categories,
                                !.messagesAtStart = messages]
       IN  IF Validates(update)
           THEN LET text == CHOOSE t \in update.text : TRUE IN
                bot' = [b EXCEPT !.validated = TRUE,
                                 !.text = text,
                                 !.source_url = ExtractUrlFromMessage(update, text),
                                 !.telegram_link = GenerateTelegramLink(update),
                                 !.pc = "summarize"]
           ELSE bot' = [b EXCEPT !.pc = "done"]
    /\ UNCHANGED smr

\* line 52: summary = summarizer.summarize_text(text)
BotSummarize ==
    /\ bot.pc = "summarize"
    /\ SummarizeText(Some(bot.text), DefaultMaxLength)
    /\ bot' = [bot EXCEPT !.summarizeCalls = @ + 1, !.pc = "summarizing"]

\* summarize_text has returned
BotSummarized ==
    /\ bot.pc = "summarizing"
    /\ smr.pc = "done"
    /\ bot' = [bot EXCEPT !.summary = CHOOSE x \in smr.result : TRUE,
                          !.summarized = TRUE,
                          !.summaryExhausted = smr.exhausted,
                          !.pc = "classify"]
    /\ smr' = IdleSummarizer

\* line 55: classifier.classify_message(text); its first statement is the
\* query of get_existing_categories, which needs a usable connection
BotClassify ==
    /\ bot.pc = "classify"
    /\ client[BotClient].conn # "aborted"
    /\ client' = [client EXCEPT ![BotClient].conn = GetCursor(@)]
    /\ ClassifyMessage(bot.text)
    /\ bot' = [bot EXCEPT !.classifyCalls = @ + 1, !.pc = "classifying"]
    /\ UNCHANGED smr

\* line 55: the query of classify_message (get_existing_categories) fails
BotClassifyRaises ==
    /\ bot.pc = "classify"
    /\ \E left \in StatementFails(client[BotClient].conn) :
            client' = [client EXCEPT ![BotClient].conn = left]
    /\ bot' = OnException(
                [bot EXCEPT !.classifyCalls = @ + 1,
                            !.storageFailed = client[BotClient].conn # "aborted"],
                "classify")
    /\ UNCHANGED smr

\* classify_message has returned
BotClassified ==
    /\ bot.pc = "classifying"
    /\ clf.pc = "done"
    /\ LET result == CHOOSE x \in clf.result : TRUE IN
        bot' = [bot EXCEPT !.category = result[1],
                           !.confidence = result[2],
                           !.classifiedOk = TRUE,
                           !.classifyExhausted = \E o \in Operations : clf.exhausted[o],
                           !.pc = "save"]
    /\ ClassifyDone
    /\ UNCHANGED smr

\* line 64: db.save_message(source_url, telegram_link, summary, category)
BotSave ==
    /\ bot.pc = "save"
    /\ CallSaveMessage(BotClient, bot.source_url, bot.telegram_link, bot.summary,
                       bot.category)
    /\ bot' = [bot EXCEPT !.saveCalls = @ + 1, !.pc = "saving"]
    /\ UNCHANGED smr

\* a statement or a commit of save_message fails (psycopg2.Error): nothing the
\* connection has not committed is ever stored, and the exception reaches the
\* handler
BotSaveRaises ==
    /\ bot.pc = "saving"
    /\ client[BotClient].pc \notin {"idle", "done"}
    /\ \E left \in (IF client[BotClient].pc \in {"ac_commit", "sm_commit"}
                     THEN CommitFails
                     ELSE StatementFails(client[BotClient].conn)) :
            client' = [client EXCEPT ![BotClient] = [IdleClient EXCEPT !.conn = left]]
    /\ uncommittedCat' = [uncommittedCat EXCEPT ![BotClient] = {}]
    /\ uncommittedMsg' = [uncommittedMsg EXCEPT ![BotClient] = {}]
    /\ bot' = OnException(
                [bot EXCEPT !.storageFailed = client[BotClient].conn # "aborted"],
                "save")
    /\ UNCHANGED <<categories, messages, nextId, calls, addedBefore, seenBy, smr>>

\* save_message has returned: lines 66-77
BotSaved ==
    /\ bot.pc = "saving"
    /\ client[BotClient].pc = "done"
    /\ LET message_id == client[BotClient].ret IN
        bot' = [bot EXCEPT !.saved = IF message_id = None THEN "none" ELSE "id",
                           !.replies = Append(@, ReplyFor(message_id)),
                           !.pc = "done"]
    /\ Return(BotClient)
    /\ UNCHANGED smr

\* lines 79-81: the error reply
BotExcept ==
    /\ bot.pc = "except"
    /\ bot' = [bot EXCEPT !.replies = Append(@, "error"), !.pc = "done"]
    /\ UNCHANGED smr

\* the handler returns
BotReturn ==
    /\ bot.pc = "done"
    /\ bot' = IdleBot
    /\ UNCHANGED smr

\* client p may step: always when clients run concurrently; only while the
\* others are idle when calls are served one at a time
MayStep(p, serial) == serial => \A q \in Procs \ {p} : client[q].pc = "idle"

\* the steps of the store's clients
StoreNext(serial) ==
    \/ \E p \in Procs, n \in StoreNames :
            MayStep(p, serial) /\ CallAddCategory(p, n) /\ UNCHANGED <<clfVars, botVars>>
    \/ \E p \in Procs, u \in SourceUrls, l \in Links, s \in Summaries, n \in StoreNames :
            MayStep(p, serial) /\ CallSaveMessage(p, u, l, s, n) /\ UNCHANGED <<clfVars, botVars>>
    \/ \E p \in Procs : MayStep(p, serial) /\ AcCategoryExists(p) /\ UNCHANGED <<clfVars, botVars>>
    \/ \E p \in Procs : MayStep(p, serial) /\ AcListAndCompare(p) /\ UNCHANGED <<clfVars, botVars>>
    \/ \E p \in Procs : MayStep(p, serial) /\ AcInsert(p) /\ UNCHANGED <<clfVars, botVars>>
    \/ \E p \in Procs : MayStep(p, serial) /\ AcCommit(p) /\ UNCHANGED <<clfVars, botVars>>
    \/ \E p \in Procs : MayStep(p, serial) /\ SmMessageExists(p) /\ UNCHANGED <<clfVars, botVars>>
    \/ \E p \in Procs : MayStep(p, serial) /\ SmInsert(p) /\ UNCHANGED <<clfVars, botVars>>
    \/ \E p \in Procs : MayStep(p, serial) /\ SmCommit(p) /\ UNCHANGED <<clfVars, botVars>>
    \/ \E p \in Procs : MayStep(p, serial) /\ Return(p) /\ UNCHANGED <<clfVars, botVars>>

Init == StoreInit /\ ClfInit /\ BotInit

\* clients run concurrently: any client may take its next step
Next == StoreNext(FALSE)

Spec == Init /\ [][Next]_vars

\* calls are served one at a time
NextSeq == StoreNext(TRUE)

SpecSeq == Init /\ [][NextSeq]_vars

\* a classifier over a category table that earlier messages have filled
InitClassify ==
    /\ \E cats \in InitialCategorySets : StoreInitWith(cats)
    /\ ClfInit
    /\ BotInit

NextClassify ==
    \/ \E text \in Texts : ClassifyMessage(text) /\ UNCHANGED <<storeVars, botVars>>
    \/ \E r \in ClassificationResponses : ClassificationResponds(r) /\ UNCHANGED <<storeVars, botVars>>
    \/ \E r \in DuplicateResponses : DuplicateCheckResponds(r) /\ UNCHANGED <<storeVars, botVars>>
    \/ ApiRateLimited /\ UNCHANGED <<storeVars, botVars>>
    \/ ApiFails /\ UNCHANGED <<storeVars, botVars>>
    \/ ClassifyDone /\ UNCHANGED <<storeVars, botVars>>

SpecClassify == InitClassify /\ [][NextClassify]_vars

\* category tables and candidate names that contain one another: names of
\* three, four and six characters
SimilarStored ==
    {<<"b", "c">>, <<"a", "b", "c", "a">>, <<"c", "a", "b", "c", "a", "b">>}

SimilarNames ==
    {<<"a", "b", "c">>, <<"a", "b", "c", "a">>, <<"A", "B", "C", "A">>,
     <<"a", "a", "a", "a">>}

\* one Database object on which add_category is called, call after call
InitSimilar ==
    /\ \E cats \in SUBSET SimilarStored : StoreInitWith(cats)
    /\ ClfInit
    /\ BotInit

NextSimilar ==
    \/ \E n \in SimilarNames :
            CallAddCategory(BotClient, n) /\ UNCHANGED <<clfVars, botVars>>
    \/ AcCategoryExists(BotClient) /\ UNCHANGED <<clfVars, botVars>>
    \/ AcListAndCompare(BotClient) /\ UNCHANGED <<clfVars, botVars>>
    \/ AcInsert(BotClient) /\ UNCHANGED <<clfVars, botVars>>
    \/ AcCommit(BotClient) /\ UNCHANGED <<clfVars, botVars>>
    \/ Return(BotClient) /\ UNCHANGED <<clfVars, botVars>>

SpecSimilar == InitSimilar /\ [][NextSimilar]_vars

\* the texts summarize_text is called with: None, the empty text, blanks, a
\* short text with blanks around it, and texts of 50 characters and more
SummarizerInputs ==
    {None, Some(<<>>), Some(<<" ", " ">>), Some(<<" ", "b", "a", " ">>),
     Some(MediumText), Some(LongText)}

\* the values of max_length: the default, and the one the tests use
MaxLengths == {DefaultMaxLength, DefaultMaxLength \div 2}

\* the responses the provider gives to a summarization request: the ones the
\* bot sees, the empty one, and one of more than 200 characters with a space
SummaryResponses ==
    BotSummaryResponses
        \cup {<<>>, Fill("w", 150) \o <<" ">> \o Fill("w", DefaultMaxLength \div 2)}

\* the summarizer alone
InitSummarize == StoreInit /\ ClfInit /\ BotInit

NextSummarize ==
    \/ \E text \in SummarizerInputs, max_length \in MaxLengths :
            SummarizeText(text, max_length) /\ UNCHANGED <<storeVars, clfVars, bot>>
    \/ \E r \in SummaryResponses :
            SummaryResponds(r) /\ UNCHANGED <<storeVars, clfVars, bot>>
    \/ SummaryRateLimited /\ UNCHANGED <<storeVars, clfVars, bot>>
    \/ SummaryApiFails /\ UNCHANGED <<storeVars, clfVars, bot>>

SpecSummarize == InitSummarize /\ [][NextSummarize]_vars

\* the bot, with the summarizer, the classifier and the database behind it
InitBot ==
    /\ \E store \in BotStores : StoreInitHolding(store.categories, store.messages)
    /\ ClfInit
    /\ BotInit

\* the steps of the handler and of the calls it makes
BotStep ==
    \/ BotSummarize /\ UNCHANGED <<storeVars, clfVars>>
    \/ \E r \in BotSummaryResponses :
            SummaryResponds(r) /\ UNCHANGED <<storeVars, clfVars, bot>>
    \/ SummaryRateLimited /\ UNCHANGED <<storeVars, clfVars, bot>>
    \/ SummaryApiFails /\ UNCHANGED <<storeVars, clfVars, bot>>
    \/ BotSummarized /\ UNCHANGED <<storeVars, clfVars>>
    \/ BotClassify /\ UNCHANGED tableVars
    \/ BotClassifyRaises /\ UNCHANGED <<tableVars, clfVars>>
    \/ \E r \in BotClassificationResponses :
            ClassificationResponds(r) /\ UNCHANGED <<storeVars, botVars>>
    \/ \E r \in BotDuplicateResponses :
            DuplicateCheckResponds(r) /\ UNCHANGED <<storeVars, botVars>>
    \/ ApiRateLimited /\ UNCHANGED <<storeVars, botVars>>
    \/ ApiFails /\ UNCHANGED <<storeVars, botVars>>
    \/ BotClassified /\ UNCHANGED storeVars
    \/ BotSave /\ UNCHANGED clfVars
    \/ AcCategoryExists(BotClient) /\ UNCHANGED <<clfVars, botVars>>
    \/ AcListAndCompare(BotClient) /\ UNCHANGED <<clfVars, botVars>>
    \/ AcInsert(BotClient) /\ UNCHANGED <<clfVars, botVars>>
    \/ AcCommit(BotClient) /\ UNCHANGED <<clfVars, botVars>>
    \/ SmMessageExists(BotClient) /\ UNCHANGED <<clfVars, botVars>>
    \/ SmInsert(BotClient) /\ UNCHANGED <<clfVars, botVars>>
    \/ SmCommit(BotClient) /\ UNCHANGED <<clfVars, botVars>>
    \/ BotSaveRaises /\ UNCHANGED clfVars
    \/ BotSaved /\ UNCHANGED clfVars
    \/ BotExcept /\ UNCHANGED <<storeVars, clfVars>>
    \/ BotReturn /\ UNCHANGED <<storeVars, clfVars>>

NextBot ==
    \/ \E update \in Updates : ReceiveUpdate(update) /\ UNCHANGED <<storeVars, clfVars>>
    \/ BotStep

SpecBot == InitBot /\ [][NextBot]_vars

\* the handler is sequential code and every call it waits for returns or
\* raises, so a handler that can step does step
SpecBotFair == SpecBot /\ WF_vars(BotStep)

(***************************************************************************)
(* Properties of the store.                                                *)
(***************************************************************************)
\* the clients whose add_category call (direct) has returned
AddCategoryDone(p) == client[p].pc = "done" /\ client[p].op = "add_category"

\* the clients whose save_message call has returned
SaveMessageDone(p) == client[p].pc = "done" /\ client[p].op = "save_message"

\* two message rows that share the link or the summary
SameMessage(m1, m2) ==
    m1.telegram_link = m2.telegram_link \/ m1.summary = m2.summary

\* C1: under any interleaving of concurrent add_category calls, the stored
\* categories never hold two names that are equal ignoring letter case.
C1_NoCaseInsensitiveDuplicates ==
    \A a \in categories, b \in categories : EqualIgnoringCase(a, b) => a = b

\* C2: calling add_category twice in sequence with a name (or with a case
\* variant of it) leaves exactly one row for the name, and the second call
\* returns False without issuing an INSERT or a commit.
C2_IdempotentInsert ==
    /\ \A n \in addedBefore :
            Cardinality({c \in categories : EqualIgnoringCase(c, n)}) = 1
    /\ \A p \in Procs :
            (AddCategoryDone(p) /\ client[p].preCalled) =>
                /\ client[p].ret = Some(FALSE)
                /\ client[p].acInserts = 0
                /\ client[p].acCommits = 0

\* C2 witness: a second add_category call, made with a case variant of a name
\* that is stored, has returned.
C2_Witness ==
    \E p \in Procs :
        /\ AddCategoryDone(p)
        /\ client[p].preCalled
        /\ client[p].category \notin categories
        /\ \E c \in categories : EqualIgnoringCase(c, client[p].category)

\* C3: add_category returns True if and only if that call created a new row
\* (so of two interleaved calls for one name at most one returns True).
C3_TrueIffCreated ==
    \A p \in Procs :
        client[p].acRet # None => client[p].acRet = Some(client[p].created)

\* C4: a save_message call made (with no other call running) when a row with
\* the same link or the same summary is stored returns None and leaves the
\* message rows unchanged.
C4_SequentialDeduplication ==
    \A p \in Procs :
        (SaveMessageDone(p) /\ client[p].dupAtStart) =>
            /\ client[p].ret = None
            /\ messages = client[p].msgsAtStart

\* C4 witness: a save_message call has returned whose summary, but not whose
\* link, was already stored.
C4_Witness ==
    \E p \in Procs :
        /\ SaveMessageDone(p)
        /\ client[p].dupAtStart
        /\ \E m \in messages : m.summary = client[p].summary
        /\ \A m \in messages : m.telegram_link # client[p].telegram_link

\* C5 (as stated): under any interleaving of save_message calls no two stored
\* message rows share the link and no two share the summary.
C5_NoDuplicateMessages ==
    \A m1 \in messages, m2 \in messages : SameMessage(m1, m2) => m1 = m2

\* C5 (amended): no stored message row shares its link or its summary with a
\* row that was already committed when its own duplicate check ran; rows that
\* share one come only from calls whose check and insert overlapped.
C5_NoDuplicateOfSeenMessage ==
    \A m1 \in messages, m2 \in messages :
        (m1 # m2 /\ SameMessage(m1, m2)) => m1.id \notin seenBy[m2.id]

\* C5 witness: a row is stored whose duplicate check ran when another row,
\* with another link and another summary, was already committed.
C5_Witness ==
    \E m1 \in messages, m2 \in messages :
        /\ m1.id \in seenBy[m2.id]
        /\ ~SameMessage(m1, m2)

\* C19: the category of every stored message row is, letter for letter, the
\* name of a stored category.
C19_ReferentialIntegrity ==
    \A m \in messages : m.category \in categories

(***************************************************************************)
(* Properties of the classifier.                                           *)
(***************************************************************************)
\* calls of client.messages.create in the running classify_message call
TotalApiCalls == clf.apiCalls["classification"] + clf.apiCalls["duplicate_check"]

\* what _parse_claude_response returned for the response received
ParsedPair == CHOOSE x \in clf.parsed : TRUE

\* C6: when the lower case of a stored category occurs in the lower-cased
\* text, classify_message returns such a stored category with confidence 1.0
\* and makes no LLM gateway call.
C6_SimpleMatchPrecedence ==
    (/\ clf.pc = "done"
     /\ \E c \in categories : IsSubstring(Lower(c), Lower(clf.text)))
    => /\ \E c \in categories :
            /\ IsSubstring(Lower(c), Lower(clf.text))
            /\ clf.result = Some(<<c, 100>>)
       /\ TotalApiCalls = 0

\* C6 witness: classify_message has returned a stored category that occurs in
\* the text only when letter case is ignored.
C6_Witness ==
    /\ clf.pc = "done"
    /\ TotalApiCalls = 0
    /\ \E c \in categories :
            /\ clf.result = Some(<<c, 100>>)
            /\ ~IsSubstring(c, clf.text)

\* C7: a gateway call that fails on every attempt, whatever the failures are,
\* makes exactly max_retries API attempts and sleeps exactly max_retries - 1
\* times before it returns the fallback.
C7_RetryCeiling ==
    \A o \in Operations :
        clf.exhausted[o] =>
            /\ clf.apiCalls[o] = MaxRetries
            /\ Len(clf.sleeps[o]) = MaxRetries - 1

\* C8: when the classification call succeeds with a candidate that is not in
\* the list and the duplicate check fails on every attempt, classify_message
\* returns the candidate unchanged.
C8_DuplicateCheckFallback ==
    (/\ clf.pc = "done"
     /\ clf.answered["classification"]
     /\ clf.exhausted["duplicate_check"])
    => clf.result = Some(<<clf.category, clf.confidence>>)

\* C9: when there is no simple match and every LLM attempt fails,
\* classify_message returns exactly ("general", 0.5), whatever the category
\* list is.
C9_ClassificationFallback ==
    (/\ clf.pc = "done"
     /\ clf.exhausted["classification"]
     /\ ~clf.answered["duplicate_check"])
    => clf.result = Some(<<GENERAL, 50>>)

\* C9 witness: classify_message has returned after both the classification
\* and the duplicate check (asked against a list that is not empty) used up
\* their attempts.
C9_Witness ==
    /\ clf.pc = "done"
    /\ clf.exhausted["classification"]
    /\ clf.exhausted["duplicate_check"]
    /\ clf.existing_categories # <<>>

\* C10: a classification call that got a response returns ("review", c) when
\* the parsed confidence c is below 0.5 and the parsed pair otherwise; the
\* confidence is never changed.
C10_LowConfidenceDowngrade ==
    clf.answered["classification"] =>
        /\ ParsedPair[2] < 50 => clf.category = REVIEW
        /\ ParsedPair[2] >= 50 => clf.category = ParsedPair[1]
        /\ clf.confidence = ParsedPair[2]

\* C10 witness: a response with a category other than "review" and a
\* confidence below 0.5 was received and the call returned "review".
C10_Witness ==
    /\ clf.answered["classification"]
    /\ ParsedPair[2] < 50
    /\ ParsedPair[1] # REVIEW
    /\ clf.category = REVIEW

\* the category classify_message returned
ResultCategory == (CHOOSE x \in clf.result : TRUE)[1]

\* the confidence classify_message returned
ResultConfidence == (CHOOSE x \in clf.result : TRUE)[2]

\* the stored categories that the duplicate-check answer names, ignoring case
AnswerMatches ==
    {x \in Range(clf.existing_categories) :
        \E a \in clf.dupAnswer : EqualIgnoringCase(x, Strip(a))}

\* C11: when the duplicate-check answer matches an existing category ignoring
\* case, classify_message's final category is that category exactly as it is
\* stored; otherwise the final category is the candidate.
C11_DuplicateSubstitution ==
    (clf.pc = "done" /\ clf.answered["duplicate_check"]) =>
        IF AnswerMatches # {}
        THEN ResultCategory \in AnswerMatches
        ELSE ResultCategory = clf.category

\* a response without a line that starts with the category label
LacksCategoryLine(r) == \A i \in DOMAIN r : r[i].label # CategoryLabel

\* a response without a confidence line that float() accepts
LacksParseableConfidence(r) ==
    \A i \in DOMAIN r : r[i].label = ConfidenceLabel => r[i].value \notin FloatTexts

\* C17: a classification response received without a category line is parsed
\* to the category "general", and one without a parseable confidence to the
\* confidence 0.5; the response is not a failure: it ends the gateway loop
\* without a fallback, as the one attempt that no sleep follows.
C17_MalformedResponseRecovery ==
    \A r \in clf.response :
        /\ LacksCategoryLine(r) => ParsedPair[1] = GENERAL
        /\ LacksParseableConfidence(r) => ParsedPair[2] = 50
        /\ (LacksCategoryLine(r) \/ LacksParseableConfidence(r)) =>
                /\ ~clf.exhausted["classification"]
                /\ clf.apiCalls["classification"] =
                        Len(clf.sleeps["classification"]) + 1

\* C17 witness: the first attempt received a response with a confidence line
\* that is not a number and no category line; one attempt, no sleep.
C17_Witness ==
    /\ \E r \in clf.response :
            /\ LacksCategoryLine(r)
            /\ \E i \in DOMAIN r : r[i].label = ConfidenceLabel
            /\ LacksParseableConfidence(r)
    /\ clf.apiCalls["classification"] = 1
    /\ clf.sleeps["classification"] = <<>>
    /\ ParsedPair = <<GENERAL, 50>>

\* _classify_with_claude has returned (a parsed response or the fallback)
Classified == clf.answered["classification"] \/ clf.exhausted["classification"]

\* C18: when the category list is empty, or the classified category equals an
\* existing category ignoring case, classify_message makes no duplicate-check
\* gateway call and returns the classified category unchanged.
C18_DuplicateCheckSkipped ==
    (/\ clf.pc = "done"
     /\ Classified
     /\ \/ clf.existing_categories = <<>>
        \/ \E x \in Range(clf.existing_categories) :
                EqualIgnoringCase(x, clf.category))
    => /\ clf.apiCalls["duplicate_check"] = 0
       /\ clf.result = Some(<<clf.category, clf.confidence>>)

\* C18 witness: classify_message has returned a classified category that is in
\* the list only when letter case is ignored.
C18_Witness ==
    /\ clf.pc = "done"
    /\ Classified
    /\ clf.category \notin Range(clf.existing_categories)
    /\ \E x \in Range(clf.existing_categories) : EqualIgnoringCase(x, clf.category)

\* C20: every pair classify_message returns has a confidence within [0, 1],
\* whatever the response text is.
C20_ConfidenceInRange ==
    clf.result # None => (0 <= ResultConfidence /\ ResultConfidence <= 100)


\* the stored categories whose lower case occurs in the lower-cased text
Occurring == {c \in categories : c # <<>> /\ IsSubstring(Lower(c), Lower(clf.text))}

\* the first position at which category c occurs in the text, ignoring case
FirstOccurrence(c) ==
    CHOOSE i \in 1..Len(clf.text) :
        /\ SubSeq(Lower(clf.text), i, i + Len(c) - 1) = Lower(c)
        /\ \A j \in 1..(i - 1) : SubSeq(Lower(clf.text), j, j + Len(c) - 1) # Lower(c)

\* C28: when several stored categories occur in the text, classify_message
\* returns the one that comes first in the listing of get_existing_categories
\* (ORDER BY name), wherever each of them occurs in the text.
C28_SimpleMatchTieBreak ==
    (clf.pc = "done" /\ Occurring # {}) =>
        /\ ResultCategory \in Occurring
        /\ \A d \in Occurring \ {ResultCategory} : StrLess(ResultCategory, d)
        /\ ResultConfidence = 100

\* C28 witness: two stored categories occur in the text, and classify_message
\* has returned the one that is listed first although the other one occurs
\* earlier in the text.
C28_Witness ==
    /\ clf.pc = "done"
    /\ Cardinality(Occurring) >= 2
    /\ ResultCategory \in Occurring
    /\ \E d \in Occurring : FirstOccurrence(d) < FirstOccurrence(ResultCategory)

\* C29: whenever classify_message returns a confidence below 0.5, the
\* category it returns is "review".
C29_LowConfidenceIsReview ==
    (clf.pc = "done" /\ ResultConfidence < 50) => ResultCategory = REVIEW

\* C30: the category classify_message returns is never a mere case variant of
\* a stored category: it is a stored name, or it differs from every stored
\* name even when letter case is ignored.
C30_NoCaseVariant ==
    clf.pc = "done" =>
        \/ ResultCategory \in categories
        \/ \A c \in categories : ~EqualIgnoringCase(ResultCategory, c)

\* the operations for which a gateway call was made
Invoked == {o \in Operations : clf.apiCalls[o] > 0}

\* an upper bound of the API attempts a running classify_message call can
\* still make: the rest of the running loop, and a whole loop for the
\* duplicate check while the classification is running
AttemptsLeft ==
    IF clf.pc # "api" THEN 0
    ELSE (MaxRetries - clf.attempt)
            + (IF clf.operation = "classification" THEN MaxRetries ELSE 0)

\* every step of a running call uses up attempts, or returns
CallAdvances ==
    (clf.pc = "api" /\ clf' # clf) =>
        /\ clf'.pc \in {"api", "done"}
        /\ AttemptsLeft' < AttemptsLeft
        /\ TotalApiCalls' = TotalApiCalls + 1

\* C33: classify_message always terminates, after at most two gateway calls
\* (one classification, then one duplicate check) and at most 2 * max_retries
\* API attempts, whatever the provider answers: every attempt of a running
\* call leaves fewer attempts to make, each loop makes at most max_retries
\* attempts, and the duplicate check only starts once the classification
\* call is over.
C33_BoundedGatewayUse ==
    /\ [](/\ \A o \in Operations : clf.apiCalls[o] <= MaxRetries
           /\ TotalApiCalls <= 2 * MaxRetries
           /\ TotalApiCalls + AttemptsLeft <= 2 * MaxRetries
           /\ "duplicate_check" \in Invoked => Classified)
    /\ [][CallAdvances]_vars

\* C33 witness: classify_message has returned after 2 * max_retries API
\* attempts: the classification was answered on its last attempt and the
\* duplicate check used up its own.
C33_Witness ==
    /\ clf.pc = "done"
    /\ TotalApiCalls = 2 * MaxRetries
    /\ clf.answered["classification"]
    /\ clf.exhausted["duplicate_check"]

\* a name that is empty or made of white space only
Blank(name) == Strip(name) = <<>>

\* C34: from a category table without a blank name (empty or white space
\* only), classify_message never returns a blank category, whatever the
\* provider answers: the candidate of the classification call is not blank,
\* the final category is not blank, and a simple match is never a match of a
\* blank name.
C34_NoBlankCategory ==
    /\ \A i \in DOMAIN clf.existing_categories : ~Blank(clf.existing_categories[i])
    /\ Classified => ~Blank(clf.category)
    /\ clf.pc = "done" => ~Blank(ResultCategory)

\* C34 witness: the classification response carried a category line with
\* nothing but white space, the duplicate check was answered with an empty
\* text, and classify_message returned "general".
C34_Witness ==
    /\ clf.pc = "done"
    /\ \E r \in clf.response :
            \E i \in DOMAIN r : r[i].label = CategoryLabel /\ Blank(r[i].value)
    /\ clf.dupAnswer = Some(<<>>)
    /\ ResultCategory = GENERAL

\* the first query of an update fails on a connection that an earlier update
\* left closed or aborted
FirstQueryFailsAfterFailure ==
    /\ bot.pc = "classify"
    /\ client[BotClient].conn # "open"
    /\ bot'.raisedIn = "classify"

\* C35: after a storage query has failed while one update was handled, the
\* Database object still serves a later valid update when the storage is
\* healthy: the first query of the later update fails only if the storage
\* fails again.
C35_RecoveryAfterFailure ==
    [][FirstQueryFailsAfterFailure => bot'.storageFailed]_vars

(***************************************************************************)
(* Properties of the bot.                                                  *)
(***************************************************************************)
\* the replies sent for the update agree with what the steps did
ReplyMatchesOutcome ==
    bot.validated =>
        /\ Len(bot.replies) <= 1
        /\ bot.pc = "done" => Len(bot.replies) = 1
        /\ bot.replies = <<"success">> <=> bot.saved = "id"
        /\ bot.replies = <<"duplicate">> <=> bot.saved = "none"
        /\ bot.replies = <<"error">> => bot.raisedIn # "none"
        /\ (bot.raisedIn # "none" /\ bot.pc = "done") => bot.replies = <<"error">>

\* C12: for every update that passes validation the handler eventually sends
\* exactly one reply: the success reply iff save_message returned an id, the
\* duplicate notice iff it returned None, the error notice iff a step raised.
C12_ExactlyOneReply ==
    /\ []ReplyMatchesOutcome
    /\ (bot.validated /\ bot.pc # "done")
            ~> (bot.validated /\ bot.pc = "done" /\ Len(bot.replies) = 1)

\* C12 witness: the handler has answered an update with the duplicate notice.
C12_Witness ==
    /\ bot.pc = "done"
    /\ bot.validated
    /\ bot.saved = "none"
    /\ bot.replies = <<"duplicate">>

\* C13: an update that is not forwarded, or has no text, causes no summarize
\* call, no classify call, no save_message call and no reply.
C13_ValidationFilter ==
    \A u \in bot.update :
        (~u.forwarded \/ u.text = None \/ u.text = Some(<<>>)) =>
            /\ bot.summarizeCalls = 0
            /\ bot.classifyCalls = 0
            /\ bot.saveCalls = 0
            /\ bot.replies = <<>>
            /\ smr.pc = "idle"
            /\ clf.pc = "idle"
            /\ client[BotClient].pc = "idle"

\* C13 witness: the handler has returned for an update with text that is not
\* forwarded.
C13_Witness ==
    /\ bot.pc = "done"
    /\ \E u \in bot.update : ~u.forwarded /\ u.text # None /\ u.text # Some(<<>>)

\* C14: save_message is invoked only after summarize_text and classify_message
\* have both returned a value; when one of them raises, it is never invoked.
C14_SaveAfterBoth ==
    /\ (bot.saveCalls > 0 \/ (bot.pc # "idle" /\ client[BotClient].pc # "idle")) =>
            (bot.summarized /\ bot.classifiedOk)
    /\ bot.raisedIn \in {"summarize", "classify"} => bot.saveCalls = 0
    /\ bot.saveCalls <= 1

\* C14 witness: classify_message raised after summarize_text had returned, and
\* the handler has finished.
C14_Witness ==
    /\ bot.pc = "done"
    /\ bot.summarized
    /\ bot.raisedIn = "classify"

\* C15: when the handling of an update ends with an exception, the committed
\* category rows and message rows are those of before the update.
C15_NoPartialState ==
    (bot.pc = "done" /\ bot.raisedIn # "none") =>
        /\ categories = bot.categoriesAtStart
        /\ messages = bot.messagesAtStart

\* C16: a gateway call that fails on every attempt is never fatal:
\* summarize_text returns the fallback of the cleaned text, classify_message
\* returns a pair, the handler goes on to save_message, and the error reply is
\* only ever sent after a storage failure.
C16_GatewayExhaustionNotFatal ==
    /\ bot.summaryExhausted =>
            /\ bot.summarized
            /\ bot.summary = FallbackSummary(CleanText(bot.text), DefaultMaxLength)
    /\ bot.classifyExhausted => bot.classifiedOk
    /\ (smr.pc = "done" /\ smr.exhausted) => smr.result # None
    /\ (clf.pc = "done" /\ \E o \in Operations : clf.exhausted[o]) => clf.result # None
    /\ bot.replies = <<"error">> => bot.raisedIn \in {"classify", "save"}
    /\ (/\ bot.pc = "done"
        /\ bot.summaryExhausted \/ bot.classifyExhausted
        /\ bot.raisedIn = "none") => bot.saveCalls = 1

\* C16 witness: a text longer than max_length was summarized by the fallback
\* and classified by the fallback, and the handler sent the success reply.
C16_Witness ==
    /\ bot.pc = "done"
    /\ bot.summaryExhausted
    /\ bot.classifyExhausted
    /\ Len(bot.text) > DefaultMaxLength
    /\ Len(bot.summary) < Len(bot.text)
    /\ bot.replies = <<"success">>

(***************************************************************************)
(* Properties of one Database object.                                      *)
(***************************************************************************)
\* the call of the Database object that has returned
Finished == client[BotClient]

\* the category rows when that call began: the call is the only one running,
\* so they are the rows of now without the row it created
CategoriesBefore ==
    IF Finished.created THEN categories \ {Finished.category} ELSE categories

\* the stored categories that contain the candidate or are contained in it,
\* ignoring case
SimilarBefore ==
    {x \in CategoriesBefore :
        \/ IsSubstring(Lower(x), Lower(Finished.category))
        \/ IsSubstring(Lower(Finished.category), Lower(x))}

\* C31: the similar-category heuristic never blocks an insertion: add_category
\* of a name that is not stored in any letter case inserts it and returns
\* True, also when a stored category contains it or is contained in it; a
\* warning is logged exactly when there is such a category and the candidate
\* is longer than 3 characters.
C31_SimilarNeverBlocks ==
    (/\ Finished.pc = "done"
     /\ Finished.op = "add_category"
     /\ \A x \in CategoriesBefore : ~EqualIgnoringCase(x, Finished.category))
    => /\ Finished.ret = Some(TRUE)
       /\ Finished.created
       /\ Finished.category \in categories
       /\ Finished.warnings > 0 <=> (SimilarBefore # {} /\ Len(Finished.category) > 3)

\* C31 witness: add_category has inserted a name of four characters, with a
\* warning, into a table that holds a category it contains and one that
\* contains it.
C31_Witness ==
    /\ Finished.pc = "done"
    /\ Finished.op = "add_category"
    /\ Finished.ret = Some(TRUE)
    /\ Finished.category \in categories
    /\ Finished.warnings = 2
    /\ \E x \in SimilarBefore : Len(x) < Len(Finished.category)
    /\ \E x \in SimilarBefore : Len(x) > Len(Finished.category)

\* C32: a save_message call that reports a duplicate (returns None) leaves
\* the persisted state unchanged: it has added no message row and no
\* category row.
C32_DuplicateLeavesStateUnchanged ==
    \A p \in Procs :
        (/\ client[p].pc = "done"
         /\ client[p].op = "save_message"
         /\ client[p].ret = None)
        => /\ messages = client[p].msgsAtStart
           /\ ~client[p].created

(***************************************************************************)
(* Properties of the classifier inside the bot, and of the links.          *)
(***************************************************************************)
\* C21: a classify_message call never writes to the store: the only Database
\* method it calls is the query get_existing_categories, the committed
\* category and message rows are the same when it returns as when the update
\* arrived, and stored rows only change once save_message has been called.
C21_ClassifierReadsOnly ==
    /\ Range(clf.dbCalls) \subseteq {"get_existing_categories"}
    /\ clf.pc # "idle" => (categories = Range(clf.existing_categories)
                            /\ uncommittedCat[BotClient] = {})
    /\ bot.pc \in {"classifying", "save"} =>
            /\ categories = bot.categoriesAtStart
            /\ messages = bot.messagesAtStart
    /\ (bot.pc # "idle" /\ bot.saveCalls = 0) =>
            /\ categories = bot.categoriesAtStart
            /\ messages = bot.messagesAtStart

\* C21 witness: classify_message has returned after a classification response
\* and a duplicate-check response, over a table that holds categories.
C21_Witness ==
    /\ bot.pc = "classifying"
    /\ clf.pc = "done"
    /\ clf.answered["classification"]
    /\ clf.answered["duplicate_check"]
    /\ categories # {}

\* C22: two different (chat id, message id) pairs never get the same link: the
\* link of the update being handled is the link of no other update the
\* transport delivers.
C22_DistinctLinks ==
    \A u \in bot.update : \A v \in Updates :
        (bot.validated /\ <<v.chat_id, v.message_id>> # <<u.chat_id, u.message_id>>)
            => GenerateTelegramLink(v) # bot.telegram_link

\* the message rows stored since the update arrived
NewMessages == messages \ bot.messagesAtStart

\* C25: persisted state only grows: no step deletes or changes a stored
\* category or a stored message row, and an update answered with the success
\* reply has created exactly one message row, which holds the handler's link,
\* summary and category.
C25_StateOnlyGrows ==
    /\ [][categories \subseteq categories' /\ messages \subseteq messages']_vars
    /\ []((bot.pc = "done" /\ bot.replies = <<"success">>) =>
            /\ Cardinality(NewMessages) = 1
            /\ \A m \in NewMessages :
                    /\ m.telegram_link = bot.telegram_link
                    /\ m.summary = bot.summary
                    /\ m.category = bot.category
                    /\ m.source_url = bot.source_url)

\* C25 witness: an update was answered with the success reply in a database
\* that already held a message row, and both rows are stored.
C25_Witness ==
    /\ bot.pc = "done"
    /\ bot.replies = <<"success">>
    /\ bot.messagesAtStart # {}
    /\ bot.messagesAtStart \subseteq messages
    /\ Cardinality(messages) = 2

(***************************************************************************)
(* Properties of the two gateway loops.                                    *)
(***************************************************************************)
\* the sleep that follows a failure of the attempt with 0-based index k:
\* 2^k + 1 seconds after a rate limit, 2^k seconds after another failure
Backoff(kind, k) == <<1, 2, 4, 8>>[k + 1] + (IF kind = "rate_limit" THEN 1 ELSE 0)

\* every failure of the sequence was followed by its sleep
FollowsSchedule(sleeps, failures) ==
    /\ Len(sleeps) = Len(failures)
    /\ \A i \in DOMAIN failures : sleeps[i] = Backoff(failures[i], i - 1)

\* the failures that are followed by a sleep: all of them, except a failure of
\* the last attempt that is not a rate limit
SleptAfter(failures, max_retries) ==
    IF Len(failures) = max_retries /\ failures[max_retries] = "error"
    THEN SubSeq(failures, 1, max_retries - 1)
    ELSE failures

\* C26 as claimed: in both gateway loops every failed attempt k is followed by
\* a sleep, of 2^k + 1 seconds after a rate limit and of 2^k seconds after any
\* other failure.
C26_BackoffSchedule ==
    /\ \A o \in Operations : FollowsSchedule(clf.sleeps[o], clf.failures[o])
    /\ FollowsSchedule(smr.sleeps, smr.failures)

\* C26, amended: in both gateway loops a rate limit on attempt k is followed
\* by a sleep of 2^k + 1 seconds, and any other failure by a sleep of 2^k
\* seconds unless attempt k is the last one, which is followed by no sleep.
C26_BackoffScheduleBeforeLast ==
    /\ \A o \in Operations :
            FollowsSchedule(clf.sleeps[o], SleptAfter(clf.failures[o], MaxRetries))
    /\ FollowsSchedule(smr.sleeps, SleptAfter(smr.failures, SummarizerMaxRetries))

\* C26 witness: after a summarization that used up its attempts, the
\* classification failed with an error, a rate limit and an error, and slept
\* 1 and 3 seconds.
C26_Witness ==
    /\ bot.summaryExhausted
    /\ clf.exhausted["classification"]
    /\ clf.failures["classification"] = <<"error", "rate_limit", "error">>
    /\ clf.sleeps["classification"] = <<1, 3>>

\* the gateway call of operation o got its response on attempt k: k API
\* attempts, k - 1 failures each followed by a sleep, no fallback
ClassifierAnsweredOnAttempt(o, k) ==
    /\ clf.answered[o]
    /\ ~clf.exhausted[o]
    /\ clf.apiCalls[o] = k
    /\ Len(clf.failures[o]) = k - 1
    /\ Len(clf.sleeps[o]) = k - 1

SummarizerAnsweredOnAttempt(k) ==
    /\ smr.answered
    /\ ~smr.exhausted
    /\ smr.apiCalls = k
    /\ Len(smr.failures) = k - 1
    /\ Len(smr.sleeps) = k - 1

\* a loop that got a response returns what the response parses to
ReturnsTheAnswer ==
    /\ \A o \in Operations :
            clf.answered[o] => \E k \in 1..MaxRetries : ClassifierAnsweredOnAttempt(o, k)
    /\ clf.answered["classification"] =>
            \E r \in clf.response :
                <<clf.category, clf.confidence>> = LowConfidenceOverride(ParseClaudeResponse(r))
    /\ (clf.answered["duplicate_check"] /\ clf.pc = "done") =>
            \E r \in clf.dupAnswer :
                clf.result = Some(<<ParseDuplicateResponse(r, clf.existing_categories,
                                                           clf.category),
                                    clf.confidence>>)
    /\ smr.answered =>
            /\ \E k \in 1..SummarizerMaxRetries : SummarizerAnsweredOnAttempt(k)
            /\ smr.pc = "done"
            /\ \E r \in smr.response :
                    smr.result = Some(SummaryOfResponse(r, smr.max_length))

\* a loop that got a response makes no further attempt and no further sleep
NoAttemptAfterAnswer ==
    /\ \A o \in Operations :
            (clf.answered[o] /\ clf'.pc # "idle") =>
                (clf'.apiCalls[o] = clf.apiCalls[o] /\ clf'.sleeps[o] = clf.sleeps[o])
    /\ (smr.answered /\ smr'.pc # "idle") =>
            (smr'.apiCalls = smr.apiCalls /\ smr'.sleeps = smr.sleeps)

\* C27: first success wins: a gateway loop whose attempt k gets a response
\* after k - 1 failed attempts returns what that response parses to and not
\* the fallback, has made exactly k API attempts and k - 1 sleeps, and makes
\* no further attempt.
C27_FirstSuccessWins ==
    /\ []ReturnsTheAnswer
    /\ [][NoAttemptAfterAnswer]_vars

\* C27 witness: the classification got its response on the third attempt,
\* after a rate limit and an error, and classify_message has returned.
C27_Witness ==
    /\ clf.pc = "done"
    /\ ClassifierAnsweredOnAttempt("classification", MaxRetries)
    /\ clf.failures["classification"] = <<"rate_limit", "error">>
    /\ bot.summarized
    /\ ~bot.summaryExhausted

(***************************************************************************)
(* Properties of the summarizer.                                           *)
(***************************************************************************)
\* C23: the summary returned after a response of the provider is never longer
\* than max_length characters.
C23_SummaryWithinMaxLength ==
    (smr.pc = "done" /\ smr.answered) =>
        \A summary \in smr.result : Len(summary) <= smr.max_length

\* the text summarize_text was called with, None counting as the empty text
SummarizerInputText == IF smr.text = None THEN <<>> ELSE CHOOSE t \in smr.text : TRUE

\* C24: for a text that is None, empty, or shorter than 50 characters once
\* stripped, summarize_text makes no gateway call, never raises, and returns
\* the stripped text (the empty string for None and for the empty text).
C24_ShortInputPassthrough ==
    (smr.pc # "idle" /\ Len(Strip(SummarizerInputText)) < MinSummarizeLength) =>
        /\ smr.raised = "none"
        /\ smr.pc = "done"
        /\ smr.apiCalls = 0
        /\ smr.result = Some(Strip(SummarizerInputText))

====
